---- MODULE Spec2Model ----
(***************************************************************************)
(* A model of tnqvm's ITensorMPSVisitor (the matrix-product-state engine): *)
(* src/tnqvm/visitors/itensor/mps/ITensorMPSVisitor.cpp.                   *)
(*                                                                         *)
(* Tensors.  A leg tensor is modelled by its three axes in the order the   *)
(* code keeps them (physical, left bond, right bond; see the comment at    *)
(* line 744 and ind_for_qbit, line 668): a record                          *)
(*   [ind, sc, dl, dr, v]                                                  *)
(* ind: the identity of the physical itensor::Index (every Index the code  *)
(*      constructs is a new one), sc: the number of factors 1/sqrt(2) the  *)
(*      tensor carries, dl/dr: the bond dimensions, v: the integer entries *)
(*      (the tensor is v * (1/sqrt 2)^sc).  Physical value 1 is |0>, 2 is  *)
(*      |1> (line 103).                                                    *)
(* A bond tensor is [d1, d2, v].  Amplitudes are exact: the gates of the   *)
(* model are Hadamard, X, CNOT and SWAP, whose matrices are integer up to  *)
(* 1/sqrt(2); Y, Z, Rx, Ry, Rz and U run the same code path as X with      *)
(* other matrix entries.                                                   *)
(*                                                                         *)
(* itensor is an external library.  Contraction is modelled as the sum     *)
(* over the shared axes; itensor::svd as an exact factorisation            *)
(* T = U * S * V (S the identity on the link) without truncation, which is *)
(* what a cutoff does that only drops singular values equal to zero, up to *)
(* the choice of basis on the link.                                        *)
(***************************************************************************)
EXTENDS Integers, Sequences, FiniteSets, TLC

\* Largest register the model initializes the engine with.
MaxQubits == 3
\* Number of top-level calls (initialize, visit, getExpectationValueZ) followed.
MaxSteps == 4
\* Longest instruction sequence handed to getExpectationValueZ.
MaxFunLen == 2
\* Largest register of the runs that follow gate visits only.
MaxChain == 4

\* std::rand() % 1000000 (line 407): rv = draw / RandMod.
RandMod == 1000000
\* Configured gate durations (lines 71 and 74), in one time unit.
singleQubitTime == 1
twoQubitTime == 3

VARIABLES
  n_qbits,     \* int n_qbits
  bufferSize,  \* buffer->size()
  legMats,     \* std::vector<ITensor> legMats   (legMats[i] of the code is legMats[i+1])
  bondMats,    \* std::vector<ITensor> bondMats
  legMats_m,   \* snapshot of legMats
  bondMats_m,  \* snapshot of bondMats
  snapped,     \* bool snapped
  iqbits_m,    \* std::set<int> iqbits_m
  cbits,       \* std::vector<int> cbits
  execTime,    \* double execTime
  expValZ,     \* buffer's "exp-val-z" entry: NoVal, or <<numerator, denominator>>
  nextInd,     \* the next unused Index identity
  status,      \* "ok", or how the process ended
  oob,         \* an element outside a vector's size has been accessed
  p0,          \* the p0 of the last visit(Measure): <<numerator, denominator>>
  ret,         \* the value last returned by getExpectationValueZ
  swaps,       \* the adjacent pairs <<in0, in1>> the last visit applied a SWAP tensor to
  hist,        \* the completed top-level calls, oldest first
  before,      \* the dense state the chain held before the last call
  before2,     \* the dense state the chain held before the call before that
  want         \* the reference value of the last call, computed on dense vectors

vars == <<n_qbits, bufferSize, legMats, bondMats, legMats_m, bondMats_m, snapped,
          iqbits_m, cbits, execTime, expValZ, nextInd, status, oob, p0, ret, swaps,
          hist, before, before2, want>>

NoVal == <<>>
\* A value read from outside a vector: no number can be relied on.
Garbage == <<0, 0>>

----------------------------------------------------------------------------
(* Arithmetic helpers *)

\* The function f held as the table of its values: a tensor's entries are
\* computed when the tensor is made, and read from storage afterwards.
Store(f) == f @@ <<>>

\* f[1] + ... + f[k]
RECURSIVE SumTo(_, _)
SumTo(f, k) == IF k = 0 THEN 0 ELSE f[k] + SumTo(f, k - 1)

\* The sum of the entries of a vector.
SumFn(f) == SumTo(f, Len(f))

RECURSIVE Pow2(_)
Pow2(k) == IF k = 0 THEN 1 ELSE 2 * Pow2(k - 1)

\* num / 2^e in lowest terms.
RECURSIVE Dyadic(_, _)
Dyadic(num, e) ==
  IF num = 0 THEN <<0, 1>>
  ELSE IF e > 0 /\ num % 2 = 0 THEN Dyadic(num \div 2, e - 1)
  ELSE <<num, Pow2(e)>>

\* rv < p0 for rv = draw / RandMod and p0 = p[1] / p[2]; a division by zero
\* gives a NaN or an infinity, and the comparison is then decided by the sign.
RvLess(draw, p) ==
  IF p[2] > 0 THEN draw * p[2] < p[1] * RandMod
  ELSE IF p[2] < 0 THEN draw * p[2] > p[1] * RandMod
  ELSE FALSE

----------------------------------------------------------------------------
(* Tensors *)

LegDom(dl, dr) == (1..2) \X (1..dl) \X (1..dr)

\* Gate matrices G[out][in], entries as the visit methods set them.
\* (HadamardMatSignMoved: the matrix with its -1 misplaced.)
HadamardMatSignMoved == << <<1, 1>>, <<-1, 1>> >>
HadamardMat == << <<1, 1>>, <<1, -1>> >>
XMat == << <<0, 1>>, <<1, 0>> >>
ZMat == << <<1, 0>>, <<0, -1>> >>
Measure0Mat == << <<1, 0>>, <<0, 0>> >>
Measure1Mat == << <<0, 0>>, <<0, 1>> >>

\* tGate * legMats[iqbit_in]: the physical axis is replaced by the gate's
\* output axis ind_out.
GateTimesLeg(G, dsc, ind_out, leg) ==
  [ind |-> ind_out, sc |-> leg.sc + dsc, dl |-> leg.dl, dr |-> leg.dr,
   v |-> Store([t \in LegDom(leg.dl, leg.dr) |->
            G[t[1]][1] * leg.v[<<1, t[2], t[3]>>] + G[t[1]][2] * leg.v[<<2, t[2], t[3]>>]])]

\* The leg tensor initWavefunc builds: the single entry (1, 1, 1) set to 1.
InitLeg(ind) ==
  [ind |-> ind, sc |-> 0, dl |-> 1, dr |-> 1,
   v |-> Store([t \in LegDom(1, 1) |-> IF t[1] = 1 THEN 1 ELSE 0])]

\* The bond tensor initWavefunc builds.
InitBond == [d1 |-> 1, d2 |-> 1, v |-> Store([t \in (1..1) \X (1..1) |-> 1])]

\* The tensors initWavefunc(n) pushes back, the first Index being ind0.
InitLegs(n, ind0) == Store([i \in 1..n |-> InitLeg(ind0 + i - 1)])
InitBonds(n) == Store([i \in 1..(n - 1) |-> InitBond])

\* Element i of a vector (the code counts from 0).
At(vec, i) == vec[i + 1]

\* Bit i of k.
Bit(k, i) == (k \div Pow2(i)) % 2

----------------------------------------------------------------------------
(* Contractions *)

\* legMats[i] * bondMats[i]: the leg's right bond contracted with the bond tensor.
LegTimesBond(L, B) ==
  Store([t \in (1..2) \X (1..L.dl) \X (1..B.d2) |->
     SumFn([c \in 1..L.dr |-> L.v[<<t[1], t[2], c>>] * B.v[<<c, t[3]>>]])])

\* One site's factor of a sweep, bra axis p against ket axis p2: an operator
\* tensor `op` sits between them on the sites of `useOp` (bra * op_tensor,
\* then noprime), and nothing (the axes are contracted directly) elsewhere.
OpEntry(useOp, op, p2, p) ==
  IF useOp THEN op[p2][p] ELSE IF p2 = p THEN 1 ELSE 0

\* bra (* op) * ket over the physical axes and the bra's left bond x, for the
\* bra tensor LB[p, x, a] and the ket tensor KL[p2, x, b]: a matrix over
\* (bra link a, ket link b) of sizes da, db.
BraOpKet(LB, KL, dx, da, db, useOp, op) ==
  Store([t \in (1..da) \X (1..db) |->
     SumFn([x \in 1..dx |->
              OpEntry(useOp, op, 1, 1) * LB[<<1, x, t[1]>>] * KL[<<1, x, t[2]>>]
            + OpEntry(useOp, op, 2, 1) * LB[<<1, x, t[1]>>] * KL[<<2, x, t[2]>>]
            + OpEntry(useOp, op, 1, 2) * LB[<<2, x, t[1]>>] * KL[<<1, x, t[2]>>]
            + OpEntry(useOp, op, 2, 2) * LB[<<2, x, t[1]>>] * KL[<<2, x, t[2]>>]])])

\* First site: conj(legMats[0] * bondMats[0]) (* op) * legMats[0], a matrix
\* over (bra link, ket link).
SiteFirst(L, B, useOp, op) ==
  BraOpKet(LegTimesBond(L, B), L.v, L.dl, B.d2, L.dr, useOp, op)

\* inner * bondMats[i-1] * legMats[i]: the ket side of site i, over
\* (physical, bra link of inner, right bond).
InnerBondLeg(inner, Bprev, L) ==
  LET K == Store([t \in (1..L.dl) \X (1..Bprev.d2) |->
              SumFn([y \in 1..Bprev.d1 |-> inner[<<t[1], y>>] * Bprev.v[<<y, t[2]>>]])])
  IN Store([t \in (1..2) \X (1..L.dl) \X (1..L.dr) |->
        SumFn([z \in 1..L.dl |-> K[<<t[2], z>>] * L.v[<<t[1], z, t[3]>>]])])

\* Middle site i:
\* inner * conj(legMats[i] * bondMats[i]) (* op) * bondMats[i-1] * legMats[i].
SiteMiddle(inner, L, B, Bprev, useOp, op) ==
  BraOpKet(LegTimesBond(L, B), InnerBondLeg(inner, Bprev, L), L.dl, B.d2, L.dr, useOp, op)

\* Last site:
\* inner * conj(legMats[n-1]) (* op) * bondMats[n-2] * legMats[n-1], a scalar:
\* the right bond (the tail) is contracted too.
SiteLast(inner, L, Bprev, useOp, op) ==
  LET M == BraOpKet(L.v, InnerBondLeg(inner, Bprev, L), L.dl, L.dr, L.dr, useOp, op)
  IN SumFn([c \in 1..L.dr |-> M[<<c, c>>]])

\* The left-to-right sweep the three inner products share (n >= 2): `op` on
\* the sites of `sites`; inner[i] is `inner` after site i of the loop over the
\* middle sites. The result is an integer; the value is that integer times
\* (1/2)^(sum of the legs' sc).
Sweep(L, B, n, sites, op) ==
  LET inner[i \in 0..(n - 2)] ==
        IF i = 0 THEN SiteFirst(At(L, 0), At(B, 0), 0 \in sites, op)
        ELSE SiteMiddle(inner[i - 1], At(L, i), At(B, i), At(B, i - 1), i \in sites, op)
  IN SiteLast(inner[n - 2], At(L, n - 1), At(B, n - 2), (n - 1) \in sites, op)

\* The sum of the scale exponents of sites 0 .. n-1.
ScaleOf(L, n) == SumFn([i \in 1..n |-> L[i].sc])

\* wavefunc_inner(): <psi|psi> of the canonical chain, as an integer.
wavefunc_inner(L, B, n) == Sweep(L, B, n, {}, ZMat)

\* average(iqbit, op_tensor): <psi|op|psi> of the canonical chain.
average(L, B, n, iqbit, op_tensor) == Sweep(L, B, n, {iqbit}, op_tensor)

\* averZs(iqbits): the product of Z over iqbits, on the snapshot.
averZs(Lm, Bm, n, iqbits) == Sweep(Lm, Bm, n, iqbits, ZMat)

\* Over the right bond of site n-1, the row vector of the chain for the basis
\* state k: row[i] is that of the first i+1 sites.
MpsRow(L, B, n, k) ==
  LET first == At(L, 0)
      row[i \in 0..(n - 1)] ==
        IF i = 0
        THEN Store([c \in 1..first.dr |->
                SumFn([h \in 1..first.dl |-> first.v[<<Bit(k, 0) + 1, h, c>>]])])
        ELSE LET Li == At(L, i)
                 Bp == At(B, i - 1)
                 prev == row[i - 1]
                 pb == Store([b \in 1..Bp.d2 |->
                          SumFn([a \in 1..Bp.d1 |-> prev[a] * Bp.v[<<a, b>>]])])
             IN Store([c \in 1..Li.dr |->
                   SumFn([b \in 1..Bp.d2 |-> pb[b] * Li.v[<<Bit(k, i) + 1, b, c>>]])])
  IN row[n - 1]

\* mps = legMats[0] * bondMats[0] * legMats[1] * ... (lines 699-703): entry k+1
\* is the amplitude of the basis state whose qubit i is bit i of k, the first
\* physical axis running fastest; sc is the power of 1/sqrt(2) it carries.
Mps(L, B, n) ==
  [w |-> Store([j \in 1..Pow2(n) |-> SumFn(MpsRow(L, B, n, j - 1))]),
   sc |-> ScaleOf(L, n)]

\* getState(): mps / norm(mps), visited in storage order, the vector then
\* reversed. Amplitude j of the result is amp[j] / sqrt(norm2).
getState(L, B, n) ==
  LET mps == Mps(L, B, n)
      len == Pow2(n)
  IN [amp |-> Store([j \in 1..len |-> mps.w[len + 1 - j]]),
      norm2 |-> SumFn([j \in 1..len |-> mps.w[j] * mps.w[j]])]

----------------------------------------------------------------------------
(* The engine: every method is an operator from the engine's state (a record
   of the member variables) to its state after the call. *)

\* xacc::error(...): the fatal error of the framework; the call does not return.
XaccError(st) == [st EXCEPT !.status = "fatal"]

\* initialize(accbuffer_in): takes a buffer of n qubits that holds no result yet.
initialize(st, n) ==
  [st EXCEPT !.n_qbits = n,
             !.bufferSize = n,
             !.snapped = FALSE,
             \* initWavefunc(n_qbits) pushes onto the vectors as they are
             !.legMats = st.legMats \o InitLegs(n, st.nextInd),
             !.bondMats = st.bondMats \o InitBonds(n),
             !.nextInd = st.nextInd + n,
             \* cbits.resize(n_qbits)
             !.cbits = Store([i \in 1..n |-> IF i <= Len(st.cbits) THEN st.cbits[i] ELSE 0]),
             !.execTime = 0,
             !.expValZ = NoVal]

\* A single-qubit visit that multiplies the gate into every leg tensor.
SingleQubitGateAllSites(st, G, dsc, iqbit_in) ==
  [st EXCEPT !.legMats = [i \in 1..Len(@) |-> GateTimesLeg(G, dsc, st.nextInd + i - 1, @[i])],
             !.nextInd = @ + Len(st.legMats),
             !.execTime = @ + singleQubitTime]

\* The single-qubit visits: legMats[iqbit_in] = tGate * legMats[iqbit_in].
SingleQubitGate(st, G, dsc, iqbit_in) ==
  [st EXCEPT !.legMats[iqbit_in + 1] = GateTimesLeg(G, dsc, st.nextInd, @),
             !.nextInd = @ + 1,
             !.execTime = @ + singleQubitTime]

\* visit(Hadamard&): the entries are .5 * sqrt(2) times HadamardMat.
visitHadamard(st, iqbit_in) == SingleQubitGate(st, HadamardMat, 1, iqbit_in)

\* visit(X&)
visitX(st, iqbit_in) == SingleQubitGate(st, XMat, 0, iqbit_in)

\* A visit that returns normally and does nothing.
visitNothing(st) == st

\* visit(CZ&)
visitCZ(st) == XaccError(st)

\* visit(CPhase&)
visitCPhase(st) == XaccError(st)

\* The entries <<out0, out1, in0, in1>> that visit(CNOT&) sets to 1.
CNOTTable == {<<1, 1, 1, 1>>, <<1, 2, 1, 2>>, <<2, 1, 2, 2>>, <<2, 2, 2, 1>>}

\* A table that exchanges nothing: the identity on the two sites.
SwapTableIdentity == {<<1, 1, 1, 1>>, <<1, 2, 1, 2>>, <<2, 1, 2, 1>>, <<2, 2, 2, 2>>}

\* The entries <<out0, out1, in0, in1>> that visit(Swap&) sets to 1.
SwapTable == {<<1, 1, 1, 1>>, <<1, 2, 2, 1>>, <<2, 1, 1, 2>>, <<2, 2, 2, 2>>}

\* tGate * legMats[iqbit_in0] * bondMats[min_iqbit] * legMats[iqbit_in1], over
\* <<lower site's output, upper site's output, left bond, right bond>>.
TobeSvd(table, in0, in1, Llo, B, Lhi) ==
  LET BL == Store([t \in (1..2) \X (1..Llo.dr) \X (1..Lhi.dr) |->
               SumFn([b \in 1..Lhi.dl |-> B.v[<<t[2], b>>] * Lhi.v[<<t[1], b, t[3]>>]])])
      W == Store([t \in (1..2) \X (1..2) \X (1..Llo.dl) \X (1..Lhi.dr) |->
              SumFn([a \in 1..Llo.dr |->
                       Llo.v[<<t[1], t[3], a>>] * BL[<<t[2], a, t[4]>>]])])
      g(olo, ohi, ilo, ihi) ==
        IF in0 < in1
        THEN (IF <<olo, ohi, ilo, ihi>> \in table THEN 1 ELSE 0)
        ELSE (IF <<ohi, olo, ihi, ilo>> \in table THEN 1 ELSE 0)
  IN Store([t \in (1..2) \X (1..2) \X (1..Llo.dl) \X (1..Lhi.dr) |->
          g(t[1], t[2], 1, 1) * W[<<1, 1, t[3], t[4]>>]
        + g(t[1], t[2], 1, 2) * W[<<1, 2, t[3], t[4]>>]
        + g(t[1], t[2], 2, 1) * W[<<2, 1, t[3], t[4]>>]
        + g(t[1], t[2], 2, 2) * W[<<2, 2, t[3], t[4]>>]])

\* The two-qubit update both visit(CNOT&) and visit(Swap&) make on the adjacent
\* sites iqbit_in0, iqbit_in1: contract, svd, store legMat, bondMat and (after
\* kickback_ind) restTensor. The link runs over the pairs (upper output, right
\* bond); legMat carries the whole tensor and restTensor is the identity there.
TwoQubitUpdate(st, table, in0, in1) ==
  LET min_iqbit == IF in0 < in1 THEN in0 ELSE in1
      max_iqbit == IF in0 < in1 THEN in1 ELSE in0
      Llo == At(st.legMats, min_iqbit)
      Lhi == At(st.legMats, max_iqbit)
      B == At(st.bondMats, min_iqbit)
      ind_out0 == st.nextInd
      ind_out1 == st.nextInd + 1
      ind_lower == IF in0 < in1 THEN ind_out0 ELSE ind_out1
      ind_upper == IF in0 < in1 THEN ind_out1 ELSE ind_out0
      tobe_svd == TobeSvd(table, in0, in1, Llo, B, Lhi)
      link == 2 * Lhi.dr
      col(p, r) == (p - 1) * Lhi.dr + r
      legMat == [ind |-> ind_lower, sc |-> Llo.sc + Lhi.sc, dl |-> Llo.dl, dr |-> link,
                 v |-> Store([t \in LegDom(Llo.dl, link) |->
                          tobe_svd[<<t[1], ((t[3] - 1) \div Lhi.dr) + 1, t[2],
                                     ((t[3] - 1) % Lhi.dr) + 1>>]])]
      bondMat == [d1 |-> link, d2 |-> link,
                  v |-> Store([t \in (1..link) \X (1..link) |-> IF t[1] = t[2] THEN 1 ELSE 0])]
      restTensor == [ind |-> ind_upper, sc |-> 0, dl |-> link, dr |-> Lhi.dr,
                     v |-> Store([t \in LegDom(link, Lhi.dr) |->
                              IF t[2] = col(t[1], t[3]) THEN 1 ELSE 0])]
  IN [st EXCEPT !.legMats[min_iqbit + 1] = legMat,
                !.bondMats[min_iqbit + 1] = bondMat,
                !.legMats[max_iqbit + 1] = restTensor,
                !.nextInd = @ + 2]

\* A permutation that moves nothing.
permuteNowhere(st, iqbit, iqbit_to) == st

RECURSIVE visitSwap(_, _, _), permute_to(_, _, _)

\* permute_to(iqbit, iqbit_to): adjacent swaps until iqbit reaches iqbit_to.
permute_to(st, iqbit, iqbit_to) ==
  LET delta == IF iqbit < iqbit_to THEN 1 ELSE -1
  IN IF iqbit = iqbit_to THEN st
     ELSE permute_to(visitSwap(st, iqbit, iqbit + delta), iqbit + delta, iqbit_to)

\* visit(Swap&)
visitSwap(st, iqbit_in0_ori, iqbit_in1_ori) ==
  LET far0 == iqbit_in0_ori < iqbit_in1_ori - 1
      far1 == iqbit_in1_ori < iqbit_in0_ori - 1
      st1 == IF far0 THEN permute_to(st, iqbit_in0_ori, iqbit_in1_ori - 1)
             ELSE IF far1 THEN permute_to(st, iqbit_in1_ori, iqbit_in0_ori - 1)
             ELSE st
      iqbit_in0 == IF far0 THEN iqbit_in1_ori - 1 ELSE iqbit_in0_ori
      iqbit_in1 == IF far0 THEN iqbit_in1_ori
                   ELSE IF far1 THEN iqbit_in0_ori - 1 ELSE iqbit_in1_ori
      st2 == [TwoQubitUpdate(st1, SwapTable, iqbit_in0, iqbit_in1)
                EXCEPT !.swaps = Append(@, <<iqbit_in0, iqbit_in1>>)]
  IN IF far0 THEN permute_to(st2, iqbit_in1_ori - 1, iqbit_in0_ori)
     ELSE IF far1 THEN permute_to(st2, iqbit_in0_ori - 1, iqbit_in1_ori)
     ELSE st2

\* visit(CNOT&): bits()[0] is the control.
visitCNOT(st, iqbit_in0_ori, iqbit_in1_ori) ==
  LET far0 == iqbit_in0_ori < iqbit_in1_ori - 1
      far1 == iqbit_in1_ori < iqbit_in0_ori - 1
      st1 == IF far0 THEN permute_to(st, iqbit_in0_ori, iqbit_in1_ori - 1)
             ELSE IF far1 THEN permute_to(st, iqbit_in1_ori, iqbit_in0_ori - 1)
             ELSE st
      iqbit_in0 == IF far0 THEN iqbit_in1_ori - 1 ELSE iqbit_in0_ori
      iqbit_in1 == IF far0 THEN iqbit_in1_ori
                   ELSE IF far1 THEN iqbit_in0_ori - 1 ELSE iqbit_in1_ori
      st2 == TwoQubitUpdate(st1, CNOTTable, iqbit_in0, iqbit_in1)
      st3 == IF far0 THEN permute_to(st2, iqbit_in1_ori - 1, iqbit_in0_ori)
             ELSE IF far1 THEN permute_to(st2, iqbit_in0_ori - 1, iqbit_in1_ori)
             ELSE st2
  IN [st3 EXCEPT !.execTime = @ + twoQubitTime]

\* ind_for_qbit(iqbit): the physical Index of the canonical leg tensor.
ind_for_qbit(st, iqbit) == At(st.legMats, iqbit).ind

\* snap_wavefunc()
snap_wavefunc(st) ==
  IF ~st.snapped
  THEN [st EXCEPT !.legMats_m = st.legMats, !.bondMats_m = st.bondMats, !.snapped = TRUE]
  ELSE st

\* The collapse of visit(Measure&): legMats[q] = tMeasure * legMats[q], the
\* primed axis set back to the leg's own Index.
Collapse(st, iqbit_measured, rvBelowP0) ==
  IF rvBelowP0
  THEN [st EXCEPT !.cbits[iqbit_measured + 1] = 0,
                  !.legMats[iqbit_measured + 1] = GateTimesLeg(Measure0Mat, 0, @.ind, @)]
  ELSE [st EXCEPT !.cbits[iqbit_measured + 1] = 1,
                  !.legMats[iqbit_measured + 1] = GateTimesLeg(Measure1Mat, 0, @.ind, @)]

\* tZ_measure_on(i) is built on ind_for_qbit(i), the canonical leg's Index,
\* and contracted with the snapshot's leg: when the two differ no axis is
\* shared, the result keeps open axes and inner.cplx() raises.
AverZsIsScalar(st, iqbits) ==
  \A i \in iqbits : ind_for_qbit(st, i) = At(st.legMats_m, i).ind

\* How a read outside a vector can end: the process dies, or the read yields
\* some value and the comparison rv < p0 comes out either way.
UBOutcomes == {"crash", "below", "notbelow"}

\* visit(Measure&). draw is std::rand() % 1000000. On a chain of one site
\* averZs, average and wavefunc_inner read bondMats_m[0], bondMats[0] and
\* element n_qbits - 2 = -1 of vectors that are empty: ub is what comes of it.
visitMeasure(st, iqbit_measured, draw, ub) ==
  LET n == st.n_qbits
      s1 == snap_wavefunc(st)
      s2 == [s1 EXCEPT !.iqbits_m = @ \cup {iqbit_measured}]
  IN IF n < 2
     THEN IF ub = "crash"
          THEN [s2 EXCEPT !.oob = TRUE, !.status = "crash"]
          ELSE [Collapse([s2 EXCEPT !.oob = TRUE, !.expValZ = Garbage, !.p0 = Garbage],
                         iqbit_measured, ub = "below")
                  EXCEPT !.execTime = @ + twoQubitTime]
     ELSE IF ~AverZsIsScalar(s2, s2.iqbits_m)
     THEN [s2 EXCEPT !.status = "fatal"]
     ELSE LET expVal == Dyadic(averZs(s2.legMats_m, s2.bondMats_m, n, s2.iqbits_m),
                               ScaleOf(s2.legMats_m, n))
              p == <<average(s2.legMats, s2.bondMats, n, iqbit_measured, Measure0Mat),
                     wavefunc_inner(s2.legMats, s2.bondMats, n)>>
              s3 == [s2 EXCEPT !.expValZ = expVal, !.p0 = p]
          IN [Collapse(s3, iqbit_measured, RvLess(draw, p))
                EXCEPT !.execTime = @ + twoQubitTime]

\* nextInst->accept(this)
accept(st, inst) ==
  CASE inst.op = "Hadamard" -> visitHadamard(st, inst.q)
    [] inst.op = "X" -> visitX(st, inst.q)
    [] inst.op = "Measure" -> visitMeasure(st, inst.q, inst.draw, inst.ub)

\* The loop of getExpectationValueZ over the instructions of `function`; an
\* error ends the walk.
WalkFunction(st, function) ==
  LET after[i \in 0..Len(function)] ==
        IF i = 0 THEN st
        ELSE LET s1 == after[i - 1]
             IN IF s1.status = "ok" /\ function[i].enabled
                THEN accept(s1, function[i]) ELSE s1
  IN after[Len(function)]

\* A getExpectationValueZ that leaves snapped and iqbits_m as the walk left them.
getExpectationValueZKeepsMeasured(st, function) ==
  LET copyLegMats == st.legMats
      copyBondMats == st.bondMats
      s1 == WalkFunction(st, function)
  IN IF s1.status # "ok" THEN s1
     ELSE IF s1.expValZ = NoVal THEN [s1 EXCEPT !.status = "fatal"]
     ELSE [s1 EXCEPT !.legMats_m = <<>>,
                     !.bondMats_m = <<>>,
                     !.legMats = copyLegMats,
                     !.bondMats = copyBondMats,
                     !.cbits = Store([i \in 1..s1.bufferSize |-> 0]),
                     !.ret = s1.expValZ]

\* A getExpectationValueZ that does not put copyLegMats and copyBondMats back.
getExpectationValueZNoRestore(st, function) ==
  LET s1 == WalkFunction(st, function)
  IN IF s1.status # "ok" THEN s1
     ELSE IF s1.expValZ = NoVal THEN [s1 EXCEPT !.status = "fatal"]
     ELSE [s1 EXCEPT !.snapped = FALSE,
                     !.legMats_m = <<>>,
                     !.bondMats_m = <<>>,
                     !.cbits = Store([i \in 1..s1.bufferSize |-> 0]),
                     !.iqbits_m = {},
                     !.ret = s1.expValZ]

\* getExpectationValueZ(function). mpark::get<double> raises when the buffer
\* holds no "exp-val-z".
getExpectationValueZ(st, function) ==
  LET copyLegMats == st.legMats
      copyBondMats == st.bondMats
      s1 == WalkFunction(st, function)
  IN IF s1.status # "ok" THEN s1
     ELSE IF s1.expValZ = NoVal THEN [s1 EXCEPT !.status = "fatal"]
     ELSE [s1 EXCEPT !.snapped = FALSE,
                     !.legMats_m = <<>>,
                     !.bondMats_m = <<>>,
                     !.legMats = copyLegMats,
                     !.bondMats = copyBondMats,
                     !.cbits = Store([i \in 1..s1.bufferSize |-> 0]),
                     !.iqbits_m = {},
                     !.ret = s1.expValZ]

----------------------------------------------------------------------------
(* Reference semantics on dense state vectors [w, sc]: entry k+1 of w is the
   amplitude of the basis state whose qubit i is bit i of k. *)

SetBit(k, i, b) == k - Bit(k, i) * Pow2(i) + b * Pow2(i)

DenseGate(d, G, dsc, q) ==
  [w |-> Store([j \in DOMAIN d.w |->
            G[Bit(j - 1, q) + 1][1] * d.w[SetBit(j - 1, q, 0) + 1]
              + G[Bit(j - 1, q) + 1][2] * d.w[SetBit(j - 1, q, 1) + 1]]),
   sc |-> d.sc + dsc]

\* CNOT with control c and target t, identity elsewhere.
DenseCNOT(d, c, t) ==
  [d EXCEPT !.w = Store([j \in DOMAIN d.w |->
                     d.w[SetBit(j - 1, t, (Bit(j - 1, t) + Bit(j - 1, c)) % 2) + 1]])]

\* The contents of qubits i and j exchanged, identity elsewhere.
DenseSwap(d, i, j) ==
  [d EXCEPT !.w = Store([k \in DOMAIN d.w |->
                     d.w[SetBit(SetBit(k - 1, i, Bit(k - 1, j)), j, Bit(k - 1, i)) + 1]])]

RECURSIVE GCD(_, _)
GCD(a, b) == IF b = 0 THEN a ELSE GCD(b, a % b)

Abs(a) == IF a < 0 THEN -a ELSE a

\* a / b in lowest terms (b >= 0; the zero vector has no expectation value).
Ratio(a, b) == IF b = 0 THEN <<0, 0>> ELSE LET g == GCD(Abs(a), b) IN <<a \div g, b \div g>>

\* (-1)^(number of qubits of S that are 1 in k).
RECURSIVE ZSign(_, _)
ZSign(k, S) ==
  IF S = {} THEN 1
  ELSE LET i == CHOOSE x \in S : TRUE
       IN (IF Bit(k, i) = 1 THEN -1 ELSE 1) * ZSign(k, S \ {i})

\* <psi| prod_{i in S} Z_i |psi> / <psi|psi>
DenseExpZ(d, S) ==
  Ratio(SumFn([j \in DOMAIN d.w |-> ZSign(j - 1, S) * d.w[j] * d.w[j]]),
        SumFn([j \in DOMAIN d.w |-> d.w[j] * d.w[j]]))

\* The state evolved by the enabled gates of `function`.
DenseEvolve(d, function) ==
  LET after[i \in 0..Len(function)] ==
        IF i = 0 THEN d
        ELSE LET inst == function[i]
                 d1 == after[i - 1]
             IN IF ~inst.enabled THEN d1
                ELSE CASE inst.op = "Hadamard" -> DenseGate(d1, HadamardMat, 1, inst.q)
                       [] inst.op = "X" -> DenseGate(d1, XMat, 0, inst.q)
                       [] OTHER -> d1
  IN after[Len(function)]

\* The number of enabled gates of `function`.
GatesOf(function) ==
  Cardinality({i \in 1..Len(function) :
                 function[i].enabled /\ function[i].op # "Measure"})

\* No enabled gate of `function` comes after an enabled Measure: 1, else 0.
GatesFirst(function) ==
  IF \A i, j \in 1..Len(function) :
       (i < j /\ function[i].enabled /\ function[i].op = "Measure" /\ function[j].enabled)
         => function[j].op = "Measure"
  THEN 1 ELSE 0

\* The qubits `function` measures.
MeasuredBy(function) ==
  {function[i].q : i \in {j \in 1..Len(function) :
                            function[j].enabled /\ function[j].op = "Measure"}}

----------------------------------------------------------------------------
(* The state machine *)

\* The engine's state as a record, at the start of a top-level call.
cur ==
  [n_qbits |-> n_qbits, bufferSize |-> bufferSize, legMats |-> legMats,
   bondMats |-> bondMats, legMats_m |-> legMats_m, bondMats_m |-> bondMats_m,
   snapped |-> snapped, iqbits_m |-> iqbits_m, cbits |-> cbits,
   execTime |-> execTime, expValZ |-> expValZ, nextInd |-> nextInd,
   status |-> status, oob |-> oob, p0 |-> p0, ret |-> ret, swaps |-> <<>>]

\* The chain's dense state, where the chain is the one initialize built.
DenseNow ==
  IF n_qbits >= 1 /\ Len(legMats) = n_qbits
  THEN Mps(legMats, bondMats, n_qbits) ELSE NoVal

\* A top-level call `call` that leaves the engine in st; ref is the call's
\* reference value.
Commit(st, call, ref) ==
  LET pre == DenseNow IN
  /\ n_qbits' = st.n_qbits
  /\ bufferSize' = st.bufferSize
  /\ legMats' = st.legMats
  /\ bondMats' = st.bondMats
  /\ legMats_m' = st.legMats_m
  /\ bondMats_m' = st.bondMats_m
  /\ snapped' = st.snapped
  /\ iqbits_m' = st.iqbits_m
  /\ cbits' = st.cbits
  /\ execTime' = st.execTime
  /\ expValZ' = st.expValZ
  /\ nextInd' = st.nextInd
  /\ status' = st.status
  /\ oob' = st.oob
  /\ p0' = st.p0
  /\ ret' = st.ret
  /\ swaps' = st.swaps
  /\ hist' = Append(hist, call)
  /\ before' = pre
  /\ before2' = before
  /\ want' = ref

\* A completed call: a and b are its qubits (for getExpectationValueZ, the
\* number of gates of its function and whether they all come before its
\* Measures), m the qubits its function measures.
Call(op, a, b, m) == [op |-> op, a |-> a, b |-> b, m |-> m]

\* The state after the constructor: n_qbits(0), snapped(false).
Init ==
  /\ n_qbits = 0
  /\ bufferSize = 0
  /\ legMats = <<>>
  /\ bondMats = <<>>
  /\ legMats_m = <<>>
  /\ bondMats_m = <<>>
  /\ snapped = FALSE
  /\ iqbits_m = {}
  /\ cbits = <<>>
  /\ execTime = 0
  /\ expValZ = NoVal
  /\ nextInd = 1
  /\ status = "ok"
  /\ oob = FALSE
  /\ p0 = NoVal
  /\ ret = NoVal
  /\ swaps = <<>>
  /\ hist = <<>>
  /\ before = NoVal
  /\ before2 = NoVal
  /\ want = NoVal

\* The process is alive and the model follows it further.
Running == status = "ok" /\ Len(hist) < MaxSteps

\* The chain is the one the last initialize built: the visits are followed on
\* an engine that has been initialized once.
Ready == Running /\ n_qbits >= 1 /\ Len(legMats) = n_qbits

Qubits == 0..(n_qbits - 1)

\* The draws of std::rand() % 1000000 the model takes: the least and the greatest.
Draws == {0, RandMod - 1}

Initialize ==
  /\ Running
  /\ \E n \in 1..MaxQubits :
       Commit(initialize(cur, n), Call("initialize", n, -1, {}), NoVal)

VisitHadamard ==
  /\ Ready
  /\ \E q \in Qubits : \E d \in {DenseNow} :
       Commit(visitHadamard(cur, q), Call("Hadamard", q, -1, {}),
              DenseGate(d, HadamardMat, 1, q))

VisitX ==
  /\ Ready
  /\ \E q \in Qubits : \E d \in {DenseNow} :
       Commit(visitX(cur, q), Call("X", q, -1, {}), DenseGate(d, XMat, 0, q))

VisitCZ ==
  /\ Ready
  /\ Commit(visitCZ(cur), Call("CZ", -1, -1, {}), NoVal)

VisitCPhase ==
  /\ Ready
  /\ Commit(visitCPhase(cur), Call("CPhase", -1, -1, {}), NoVal)

VisitCNOT ==
  /\ Ready
  /\ \E c \in Qubits : \E t \in Qubits \ {c} : \E d \in {DenseNow} :
       Commit(visitCNOT(cur, c, t), Call("CNOT", c, t, {}), DenseCNOT(d, c, t))

VisitSwap ==
  /\ Ready
  /\ \E i \in Qubits : \E j \in Qubits \ {i} : \E d \in {DenseNow} :
       Commit(visitSwap(cur, i, j), Call("Swap", i, j, {}), DenseSwap(d, i, j))

VisitMeasure ==
  /\ Ready
  /\ \E q \in Qubits : \E draw \in Draws :
       \E ub \in (IF n_qbits < 2 THEN UBOutcomes ELSE {"none"}) :
         Commit(visitMeasure(cur, q, draw, ub), Call("Measure", q, -1, {}), NoVal)

\* The instructions a function handed to getExpectationValueZ is made of.
Instructions ==
  {[op |-> "Hadamard", q |-> q, enabled |-> TRUE, draw |-> 0, ub |-> "none"] :
     q \in Qubits}
  \cup
  {[op |-> "Measure", q |-> q, enabled |-> TRUE, draw |-> d, ub |-> u] :
     q \in Qubits, d \in Draws, u \in (IF n_qbits < 2 THEN UBOutcomes ELSE {"none"})}
  \cup
  {[op |-> "X", q |-> 0, enabled |-> FALSE, draw |-> 0, ub |-> "none"]}

Functions == UNION {[1..k -> Instructions] : k \in 0..MaxFunLen}

GetExpectationValueZ ==
  /\ Ready
  /\ \E function \in Functions : \E d \in {DenseNow} :
       Commit(getExpectationValueZ(cur, function),
              Call("getExpectationValueZ", GatesOf(function), GatesFirst(function),
                   MeasuredBy(function)),
              DenseExpZ(DenseEvolve(d, function), MeasuredBy(function)))

Next ==
  \/ Initialize
  \/ VisitHadamard
  \/ VisitX
  \/ VisitCZ
  \/ VisitCPhase
  \/ VisitCNOT
  \/ VisitSwap
  \/ VisitMeasure
  \/ GetExpectationValueZ

Spec == Init /\ [][Next]_vars

\* The runs of gate and Measure visits on chains long enough for a permutation
\* of more than one step.
InitializeChain ==
  /\ Running /\ hist = <<>>
  /\ \E n \in 2..MaxChain :
       Commit(initialize(cur, n), Call("initialize", n, -1, {}), NoVal)

NextGates ==
  \/ InitializeChain
  \/ VisitHadamard
  \/ VisitX
  \/ VisitCNOT
  \/ VisitSwap
  \/ VisitMeasure

SpecGates == Init /\ [][NextGates]_vars

----------------------------------------------------------------------------
(* Properties *)

Last == hist[Len(hist)]
Called(op) == Len(hist) > 0 /\ Last.op = op

\* The number of completed calls of the kinds `ops`.
Count(ops) == Cardinality({i \in 1..Len(hist) : hist[i].op \in ops})

\* C1: when getExpectationValueZ returns, legMats and bondMats are, element
\* for element, what they were immediately before the call.
C1_SnapshotNonInterference ==
  [][(hist' # hist /\ hist'[Len(hist')].op = "getExpectationValueZ" /\ status' = "ok")
       => (legMats' = legMats /\ bondMats' = bondMats)]_vars

\* A query of gates and Measures has returned on an entangled chain.
C1_Witness ==
  /\ Called("getExpectationValueZ") /\ status = "ok"
  /\ Last.a > 0 /\ Last.m # {}
  /\ Count({"CNOT"}) > 0

\* C2: once initialize has been called, legMats holds n_qbits tensors and
\* bondMats n_qbits - 1, a later initialize included.
C2_ChainLength ==
  Count({"initialize"}) > 0
    => (Len(legMats) = n_qbits /\ Len(bondMats) = n_qbits - 1)

\* C3: visit(CNOT(c, t)) acts on the chain's dense state as the CNOT with
\* control c and target t and the identity on every other qubit, whatever the
\* order and the distance of c and t.
C3_CNOTEquivalence == Called("CNOT") => DenseNow = want

\* A CNOT whose control lies two sites above its target has run, through the
\* permutation, on a superposition.
C3_Witness ==
  /\ Called("CNOT") /\ Last.a > Last.b + 1
  /\ swaps # <<>>
  /\ Count({"Hadamard"}) > 0
  /\ before # DenseNow

\* C4: visit(Swap(i, j)) exchanges the contents of sites i and j and leaves
\* the others in place, and the same swap twice in a row restores the state
\* that held before the first.
C4_SwapInvolution ==
  /\ Called("Swap") => DenseNow = want
  /\ (Len(hist) >= 2 /\ Called("Swap") /\ hist[Len(hist) - 1] = Last)
       => DenseNow = before2

\* The same non-adjacent swap, its greater qubit first, has run twice in a
\* row, and the first one changed the state.
C4_Witness ==
  /\ Len(hist) >= 2 /\ Called("Swap") /\ hist[Len(hist) - 1] = Last
  /\ Last.a > Last.b + 1
  /\ before # before2
  /\ DenseNow = before2

\* C5: the value getExpectationValueZ(function) returns is the expectation of
\* the product of Z over the qubits `function` measures, on the canonical
\* state at entry evolved by the gates of `function`, whatever was measured or
\* snapshotted before the call. Stated for the functions whose gates all come
\* before their Measures, on chains of two sites and more.
C5_QueryValue ==
  (/\ Called("getExpectationValueZ") /\ status = "ok"
   /\ n_qbits >= 2 /\ Last.b = 1 /\ Last.m # {})
    => ret = want

\* The amplitude vector getState returns.
StateNow == getState(legMats, bondMats, n_qbits)

\* The n-bit number whose bits are those of k in the opposite order.
BitReverse(k, n) ==
  SumFn([i \in 1..n |-> Bit(k, i - 1) * Pow2(n - i)])

\* C6: getState returns 2^n amplitudes, position k of the enumeration of the
\* contracted chain moved to the position whose n bits are those of k reversed.
C6_StateOrdering ==
  (n_qbits >= 1 /\ Len(legMats) = n_qbits)
    => /\ Len(StateNow.amp) = Pow2(n_qbits)
       /\ \A k \in 0..(Pow2(n_qbits) - 1) :
            StateNow.amp[BitReverse(k, n_qbits) + 1] = DenseNow.w[k + 1]

\* The calls that prepare the Bell state on a chain of two sites.
BellCalls ==
  << Call("initialize", 2, -1, {}), Call("Hadamard", 0, -1, {}), Call("CNOT", 0, 1, {}) >>

\* C7: after initialize(2), Hadamard(0), CNOT(0, 1) getState returns a vector
\* whose first and last amplitudes are both 1/sqrt(2) and whose middle
\* amplitudes are zero.
C7_BellState ==
  hist = BellCalls
    => /\ StateNow.amp[1] = StateNow.amp[4]
       /\ StateNow.amp[1] > 0
       /\ 2 * StateNow.amp[1] * StateNow.amp[1] = StateNow.norm2
       /\ StateNow.amp[2] = 0
       /\ StateNow.amp[3] = 0

\* The Bell state has been prepared.
C7_Witness == hist = BellCalls /\ status = "ok" /\ Len(StateNow.amp) = 4

\* C8: on a chain of one site, initialize, X(0), Measure(0) completes with
\* every access inside its vector, p0 = 0 and cbits[0] = 1, whatever the draw.
C8_OneSiteCollapse ==
  hist = << Call("initialize", 1, -1, {}), Call("X", 0, -1, {}), Call("Measure", 0, -1, {}) >>
    => /\ ~oob
       /\ status = "ok"
       /\ p0 = <<0, 1>>
       /\ cbits[1] = 1

\* C9: a visit of CZ or CPhase ends in the fatal error, and leaves legMats,
\* bondMats, cbits, the snapshot and execTime as they were.
C9_UnimplementedFatal ==
  [][(hist' # hist /\ hist'[Len(hist')].op \in {"CZ", "CPhase"})
       => /\ status' = "fatal"
          /\ legMats' = legMats /\ bondMats' = bondMats /\ cbits' = cbits
          /\ legMats_m' = legMats_m /\ bondMats_m' = bondMats_m
          /\ snapped' = snapped /\ iqbits_m' = iqbits_m
          /\ execTime' = execTime]_vars

\* CZ has been visited on an engine that holds a snapshot and has run gates.
C9_Witness ==
  /\ Called("CZ") /\ status = "fatal"
  /\ snapped /\ legMats_m # <<>>
  /\ execTime > twoQubitTime

\* C10: after initialize and top-level visits, execTime is singleQubitTime for
\* every single-qubit gate visited plus twoQubitTime for every CNOT, every
\* SWAP and every Measure visited.
C10_ElapsedTime ==
  (/\ status = "ok"
   /\ Count({"initialize"}) = 1
   /\ Count({"getExpectationValueZ"}) = 0)
    => execTime = Count({"Hadamard", "X"}) * singleQubitTime
                    + Count({"CNOT", "Swap"}) * twoQubitTime
                    + Count({"Measure"}) * twoQubitTime

\* C11: when getExpectationValueZ returns, snapped is false, legMats_m and
\* bondMats_m are empty, iqbits_m is empty and cbits holds n zeros, whatever
\* earlier Measure visits left behind.
C11_QueryReset ==
  (Called("getExpectationValueZ") /\ status = "ok")
    => /\ ~snapped
       /\ legMats_m = <<>> /\ bondMats_m = <<>>
       /\ iqbits_m = {}
       /\ Len(cbits) = n_qbits
       /\ \A i \in 1..Len(cbits) : cbits[i] = 0

\* A query has returned right after a top-level Measure of a qubit that X had
\* set to |1>: the entry state held a snapshot, a measured qubit and a bit 1.
C11_Witness ==
  /\ Len(hist) >= 4 /\ Called("getExpectationValueZ") /\ status = "ok"
  /\ hist[Len(hist) - 1].op = "Measure"
  /\ hist[Len(hist) - 2].op = "X"
  /\ hist[Len(hist) - 2].a = hist[Len(hist) - 1].a
  /\ n_qbits >= 2

\* The squared norm of the dense state d, and the part of it on the basis
\* states whose qubit q is b (both times 2^d.sc).
DenseNorm(d) == SumFn([j \in DOMAIN d.w |-> d.w[j] * d.w[j]])
DenseWeight(d, q, b) ==
  SumFn([j \in DOMAIN d.w |-> IF Bit(j - 1, q) = b THEN d.w[j] * d.w[j] ELSE 0])

\* The projection of d onto qubit q = b, not renormalized.
DenseProject(d, q, b) ==
  [d EXCEPT !.w = Store([j \in DOMAIN d.w |-> IF Bit(j - 1, q) = b THEN d.w[j] ELSE 0])]

\* C12: a completed visit(Measure(q)) has computed p0 as the weight of the
\* canonical state on qubit q = |0> over its norm, has set cbits[q] = 0 only
\* on a draw below p0 (so p0 > 0) and cbits[q] = 1 only on a draw not below it
\* (so p0 < 1), and has left the state projected on the outcome, not
\* renormalized.
C12_MeasurementRule ==
  (Called("Measure") /\ status = "ok")
    => /\ p0[1] * DenseNorm(before) = p0[2] * DenseWeight(before, Last.a, 0)
       /\ cbits[Last.a + 1] \in {0, 1}
       /\ cbits[Last.a + 1] = 0 => DenseWeight(before, Last.a, 0) > 0
       /\ cbits[Last.a + 1] = 1 => DenseWeight(before, Last.a, 0) < DenseNorm(before)
       /\ DenseNow = DenseProject(before, Last.a, cbits[Last.a + 1])

\* Qubit q has been measured by a top-level visit, and only Measure visits
\* have followed it.
MeasuredSince(q) ==
  \E i \in 1..Len(hist) :
    /\ hist[i].op = "Measure" /\ hist[i].a = q
    /\ \A j \in (i + 1)..Len(hist) : hist[j].op = "Measure"

\* C13: a visit(Measure(q)) that follows a visit(Measure(q)) with nothing but
\* Measure visits in between sets cbits[q] to what it was, whatever the draw.
C13_OutcomeTerminal ==
  [][(/\ hist' # hist /\ status' = "ok"
      /\ hist'[Len(hist')].op = "Measure"
      /\ MeasuredSince(hist'[Len(hist')].a))
       => cbits'[hist'[Len(hist')].a + 1] = cbits[hist'[Len(hist')].a + 1]]_vars

\* The adjacent pairs a permutation of the lower qubit lo up to hi - 1 swaps,
\* and those of the way back.
ChainUp(lo, hi) == [k \in 1..(hi - 1 - lo) |-> <<lo + k - 1, lo + k>>]
ChainDown(lo, hi) == [k \in 1..(hi - 1 - lo) |-> <<hi - k, hi - k - 1>>]

\* The SWAP tensors a visit of `call` applies, in order.
ExpectedSwaps(call) ==
  LET lo == IF call.a < call.b THEN call.a ELSE call.b
      hi == IF call.a < call.b THEN call.b ELSE call.a
      gate == IF call.op = "CNOT" THEN <<>>
              ELSE IF hi - lo < 2 THEN << <<call.a, call.b>> >>
              ELSE IF call.a < call.b THEN << <<hi - 1, hi>> >>
              ELSE << <<hi, hi - 1>> >>
  IN ChainUp(lo, hi) \o gate \o ChainDown(lo, hi)

\* C14: a two-qubit gate on qubits i and j makes |i-j|-1 adjacent SWAPs that
\* walk the lower qubit up to the site next to its partner, acts once on that
\* adjacent pair, and makes the same SWAPs in reverse order afterwards.
C14_SwapChain ==
  ((Called("CNOT") \/ Called("Swap")) /\ status = "ok")
    => /\ swaps = ExpectedSwaps(Last)
       /\ DenseNow = want

\* A CNOT whose control lies three sites above its target has run: two SWAPs
\* up, two SWAPs down.
C14_Witness ==
  /\ Called("CNOT") /\ Last.a = Last.b + 3
  /\ Len(swaps) = 4
  /\ swaps[1] # swaps[2]
  /\ before # DenseNow

\* C15: a gate visit replaces no leg tensor outside the sites between its
\* qubits and no bond tensor outside the cuts between them (for a single-qubit
\* gate: the one leg tensor and no bond), and leaves cbits, the snapshot and
\* the measured-qubit set as they were.
C15_GateLocality ==
  [][(/\ hist' # hist /\ status' = "ok"
      /\ hist'[Len(hist')].op \in {"Hadamard", "X", "CNOT", "Swap"})
       => LET c == hist'[Len(hist')]
              one == c.op \in {"Hadamard", "X"}
              lo == IF one \/ c.a < c.b THEN c.a ELSE c.b
              hi == IF one \/ c.a > c.b THEN c.a ELSE c.b
          IN /\ Len(legMats') = Len(legMats)
             /\ Len(bondMats') = Len(bondMats)
             /\ \A s \in 0..(Len(legMats) - 1) :
                  (s < lo \/ s > hi) => legMats'[s + 1] = legMats[s + 1]
             /\ \A m \in 0..(Len(bondMats) - 1) :
                  (m < lo \/ m > hi - 1) => bondMats'[m + 1] = bondMats[m + 1]
             /\ cbits' = cbits
             /\ snapped' = snapped
             /\ legMats_m' = legMats_m
             /\ bondMats_m' = bondMats_m
             /\ iqbits_m' = iqbits_m]_vars

\* A CNOT on the non-adjacent qubits 0 and 2 of four has run after qubit 3 was
\* flipped and measured: site 3 and cut 2 lie outside the gate's range, cbits
\* holds a 1 and the snapshot is taken.
C15_Witness ==
  /\ Called("CNOT") /\ status = "ok"
  /\ n_qbits = 4 /\ Last.a = 0 /\ Last.b = 2
  /\ snapped /\ 3 \in iqbits_m
  /\ cbits[4] = 1
  /\ legMats[4] # InitLeg(legMats[4].ind)
  /\ legMats[1] # InitLeg(legMats[1].ind)

\* The qubits measured by the top-level calls of h since the last call that
\* reset the snapped flag.
MeasuredSinceReset(h) ==
  LET resets == {i \in 1..Len(h) : h[i].op \in {"initialize", "getExpectationValueZ"}}
      from == IF resets = {} THEN 0 ELSE CHOOSE i \in resets : \A j \in resets : j <= i
  IN {h[i].a : i \in {j \in (from + 1)..Len(h) : h[j].op = "Measure"}}

\* <prod Z> over S of the chain held in the snapshot buffers Lm, Bm.
SnapshotExpZ(Lm, Bm, n, S) ==
  IF n >= 1 /\ Len(Lm) = n /\ Len(Bm) = n - 1
  THEN DenseExpZ(Mps(Lm, Bm, n), S) ELSE NoVal

\* C16: between two resets of snapped the snapshot is written once, by the
\* first visit(Measure), and no gate or later Measure changes it; the measured
\* set only grows; and every visit(Measure) records the joint Z expectation of
\* that snapshot over the qubits measured since the reset.
C16_SnapshotFrozen ==
  [][(hist' # hist /\ status = "ok")
       => LET c == hist'[Len(hist')]
          IN /\ c.op = "Measure"
                  => /\ status' = "ok"
                     /\ snapped'
                     /\ snapped => (legMats_m' = legMats_m /\ bondMats_m' = bondMats_m)
                     /\ ~snapped => (legMats_m' = legMats /\ bondMats_m' = bondMats)
                     /\ iqbits_m \subseteq iqbits_m'
                     /\ c.a \in iqbits_m'
                     /\ expValZ' = SnapshotExpZ(legMats_m', bondMats_m', n_qbits',
                                                MeasuredSinceReset(hist'))
             /\ c.op \in {"Hadamard", "X", "CNOT", "Swap"}
                  => /\ legMats_m' = legMats_m /\ bondMats_m' = bondMats_m
                     /\ snapped' = snapped
                     /\ iqbits_m' = iqbits_m]_vars

====
